---- MODULE Spec2Model ----
(***************************************************************************)
(* DevFork Arena: competition orchestration and scoring.                   *)
(*                                                                         *)
(* Models backend/agents/agent_manager.py (AgentManager), run_competition  *)
(* and cancel_competition of backend/services/competition_service.py       *)
(* (CompetitionService) and the status enumerations of backend/models.py.  *)
(*                                                                         *)
(* Conventions                                                             *)
(*  - An Optional[float] is a sequence: <<>> is None, <<t>> is the value t.*)
(*  - Times are whole seconds; the arithmetic on them is the float          *)
(*    arithmetic of the code.                                              *)
(*  - asyncio runs one coroutine at a time; an action is the code between  *)
(*    two suspension points.  A suspension whose continuation touches only *)
(*    the coroutine's own locals is folded into the step before it.        *)
(*  - A persistence call (_save_submission, _save_competition) is I/O that *)
(*    either completes or raises.  Whether it completes is an input of the *)
(*    step; an input that a step does not read is TRUE.                    *)
(***************************************************************************)
EXTENDS Integers, Sequences, FiniteSets, TLC

(***************************************************************************)
(* Bounds of the model                                                     *)
(***************************************************************************)
\* longest agent_ids list handed to run_competition; agent ids are 1..MaxAgents
MaxAgents == 2
\* AgentConfig.max_iterations of the registered agents
MaxIterations == 1
\* longest Submission list handed to _create_leaderboard on its own
LbMaxLen == 3
\* largest score in those lists
LbMaxScore == 1
\* _calculate_score on its own: execution times 0..ScoreMaxTime seconds,
\* 1..ScoreMaxAttempts attempts, test results of at most ScoreMaxTests tests
ScoreMaxTime == 61
ScoreMaxAttempts == 12
ScoreMaxTests == 5

(***************************************************************************)
(* Input domains                                                           *)
(***************************************************************************)
AgentIds == 1..MaxAgents
CompIds == {"c1", "c2"}
Runs == {"r1", "r2"}
\* elapsed wall-clock seconds of a solve call that returned in time
ExecTimes == {30}
\* execution_time values of the Submission lists handed to _create_leaderboard
LbTimes == {<<>>, <<0>>, <<1>>, <<2>>}
\* difficulty strings handed to _calculate_score
Difficulties == {"easy", "medium", "hard", "MEDIUM", "Hard", "expert"}

\* models.py SubmissionStatus
SubmissionStatus == {"pending", "running", "passed", "failed", "timeout", "error"}
TerminalSubmission == {"passed", "failed", "timeout", "error"}
\* models.py CompetitionStatus: the enumeration has no FAILED member
CompetitionStatus == {"pending", "running", "completed", "cancelled"}
TerminalCompetition == {"completed", "cancelled", "failed"}

Max(a, b) == IF a >= b THEN a ELSE b

(***************************************************************************)
(* SubmissionResponse, with the defaults of the pydantic model             *)
(***************************************************************************)
SubmissionResponse(agent_id, status, total_tests) ==
    [agent_id |-> agent_id, status |-> status, score |-> 0,
     tests_passed |-> 0, total_tests |-> total_tests,
     execution_time |-> <<>>, attempts |-> 0]

(***************************************************************************)
(* Python float arithmetic (IEEE-754 binary64, round to nearest, ties to   *)
(* even) on the values _calculate_score meets.  A float is written as five *)
(* digits of base 2^15, most significant first, counting units of 2^-60;   *)
(* the first digit is its integer part.  That holds every value of the     *)
(* computation exactly: they are below 2^15 and a quotient that is not 0   *)
(* is at least 2^-6, so its 53 significant bits end at 2^-58 or above.     *)
(***************************************************************************)
Digit == 2^15

\* float(n) of an int
Double(n) == <<n, 0, 0, 0, 0>>

\* a * k + carry for a small int k
RECURSIVE MulDigits(_, _, _)
MulDigits(a, k, carry) ==
    IF a = <<>> THEN <<>>
    ELSE LET n == Len(a)
             p == a[n] * k + carry
         IN  Append(MulDigits(SubSeq(a, 1, n - 1), k, p \div Digit), p % Digit)

\* <<quotient, remainder>> of (rem, a) by a small int k
RECURSIVE DivDigits(_, _, _)
DivDigits(a, k, rem) ==
    IF a = <<>> THEN <<<<>>, rem>>
    ELSE LET cur == rem * Digit + Head(a)
             rest == DivDigits(Tail(a), k, cur % k)
         IN  <<<<cur \div k>> \o rest[1], rest[2]>>

RECURSIVE AddDigits(_, _, _)
AddDigits(a, b, carry) ==
    IF a = <<>> THEN <<>>
    ELSE LET n == Len(a)
             s == a[n] + b[n] + carry
         IN  Append(AddDigits(SubSeq(a, 1, n - 1), SubSeq(b, 1, n - 1), s \div Digit),
                    s % Digit)

\* a - b for a >= b
RECURSIVE SubDigits(_, _, _)
SubDigits(a, b, borrow) ==
    IF a = <<>> THEN <<>>
    ELSE LET n == Len(a)
             s == a[n] - b[n] - borrow
         IN  Append(SubDigits(SubSeq(a, 1, n - 1), SubSeq(b, 1, n - 1),
                              IF s < 0 THEN 1 ELSE 0),
                    IF s < 0 THEN s + Digit ELSE s)

\* a < b
LessDigits(a, b) ==
    \E i \in 1..Len(a) : a[i] < b[i] /\ \A j \in 1..(i - 1) : a[j] = b[j]

RECURSIVE BitLen(_)
BitLen(n) == IF n = 0 THEN 0 ELSE 1 + BitLen(n \div 2)

\* the number of bits from the leading 1 of a down to 2^-60
BitLength(a) ==
    IF \A i \in 1..Len(a) : a[i] = 0 THEN 0
    ELSE LET i == CHOOSE i \in 1..Len(a) : a[i] # 0 /\ \A j \in 1..(i - 1) : a[j] = 0
         IN  (Len(a) - i) * 15 + BitLen(a[i])

\* a without its last d bits (1 <= d <= 15): <<what is left, the first bit
\* dropped, whether anything below it was 1>>
DropBits(a, d, sticky) ==
    LET qr == DivDigits(a, 2^d, 0)
        half == 2^(d - 1)
    IN  <<qr[1], qr[2] >= half, sticky \/ (qr[2] % half # 0)>>

\* The float nearest to the exact value a (plus a nonzero amount below
\* 2^-60 when sticky): 53 significant bits are kept, a tie goes to the even one.
RoundNearestEven(a, sticky) ==
    LET d == BitLength(a) - 53
    IN  IF d <= 0 THEN a
        ELSE LET lo == IF d > 15 THEN DropBits(a, 15, sticky) ELSE <<a, FALSE, sticky>>
                 d2 == IF d > 15 THEN d - 15 ELSE d
                 hi == DropBits(lo[1], d2, lo[2] \/ lo[3])
                 q == hi[1]
                 up == hi[2] /\ (hi[3] \/ q[Len(q)] % 2 = 1)
                 r == IF up THEN AddDigits(q, <<0, 0, 0, 0, 1>>, 0) ELSE q
                 back == MulDigits(r, 2^d2, 0)
             IN  IF d > 15 THEN MulDigits(back, Digit, 0) ELSE back

\* n / k for ints n >= 0 and k > 0
FloatDiv(n, k) ==
    LET qr == DivDigits(Double(n), k, 0)
    IN  RoundNearestEven(qr[1], qr[2] # 0)

\* a * k for an int k
FloatMul(a, k) == RoundNearestEven(MulDigits(a, k, 0), FALSE)

\* a * 0.5
FloatHalf(a) ==
    LET qr == DivDigits(a, 2, 0)
    IN  RoundNearestEven(qr[1], qr[2] # 0)

FloatAdd(a, b) == RoundNearestEven(AddDigits(a, b, 0), FALSE)

\* a - b for a >= b
FloatSub(a, b) == RoundNearestEven(SubDigits(a, b, 0), FALSE)

\* int(a) for a >= 0
Trunc(a) == a[1]

(***************************************************************************)
(* AgentManager._calculate_score                                           *)
(*   test_result = [passed, passed_tests, total_tests]; the result is      *)
(*   <<"ok", score>> or <<"raise", "ZeroDivisionError">>.                  *)
(***************************************************************************)
\* str.lower() on the difficulty strings of the model
Lower(difficulty) ==
    CASE difficulty = "MEDIUM" -> "medium"
      [] difficulty = "Hard" -> "hard"
      [] OTHER -> difficulty

\* twice the difficulty multiplier:
\* {"easy": 1.0, "medium": 1.5, "hard": 2.0}.get(difficulty.lower(), 1.0)
DifficultyMultiplier2(difficulty) ==
    CASE Lower(difficulty) = "easy" -> 2
      [] Lower(difficulty) = "medium" -> 3
      [] Lower(difficulty) = "hard" -> 4
      [] OTHER -> 2

\* max(0, 50 - (execution_time / 60 * 50))
TimeBonus(execution_time) ==
    LET used == FloatMul(FloatDiv(execution_time, 60), 50)
    IN  IF LessDigits(used, Double(50)) THEN FloatSub(Double(50), used) ELSE Double(0)

\* When base_score + time_bonus is below attempt_penalty the product is
\* negative, int() of it is at most 0 and max(0, score) is 0.
CalculateScore(test_result, execution_time, attempts, difficulty) ==
    IF ~test_result.passed
    THEN IF test_result.total_tests = 0
         THEN <<"raise", "ZeroDivisionError">>
         ELSE <<"ok", Trunc(FloatMul(FloatDiv(test_result.passed_tests,
                                              test_result.total_tests), 30))>>
    ELSE LET base_score == 100
             attempt_penalty == (attempts - 1) * 10
             gained == FloatAdd(Double(base_score), TimeBonus(execution_time))
         IN  IF LessDigits(gained, Double(attempt_penalty))
             THEN <<"ok", 0>>
             ELSE <<"ok", Max(0, Trunc(FloatHalf(FloatMul(
                              FloatSub(gained, Double(attempt_penalty)),
                              DifficultyMultiplier2(difficulty)))))>>

(***************************************************************************)
(* AgentManager._create_leaderboard                                        *)
(***************************************************************************)
\* x["execution_time"] or float('inf'): None and 0.0 are both falsy.
\* <<1, 0>> is +infinity, <<0, t>> is the finite time t.
TimeKey(execution_time) ==
    IF execution_time = <<>> \/ execution_time[1] = 0
    THEN <<1, 0>>
    ELSE <<0, execution_time[1]>>

\* key(a) < key(b) for key = (-score, execution_time or inf)
KeyLess(a, b) ==
    \/ a.score > b.score
    \/ /\ a.score = b.score
       /\ \/ TimeKey(a.execution_time)[1] < TimeKey(b.execution_time)[1]
          \/ /\ TimeKey(a.execution_time)[1] = TimeKey(b.execution_time)[1]
             /\ TimeKey(a.execution_time)[2] < TimeKey(b.execution_time)[2]

\* an unstable sort: an entry goes in front of the entries of equal key
RECURSIVE InsertSortedBeforeTies(_, _)
InsertSortedBeforeTies(e, s) ==
    IF s = <<>> THEN <<e>>
    ELSE IF ~KeyLess(Head(s), e) THEN <<e>> \o s
    ELSE <<Head(s)>> \o InsertSortedBeforeTies(e, Tail(s))

\* list.sort is stable: an entry goes behind every entry whose key is not larger
RECURSIVE InsertSorted(_, _)
InsertSorted(e, s) ==
    IF s = <<>> THEN <<e>>
    ELSE IF KeyLess(e, Head(s)) THEN <<e>> \o s
    ELSE <<Head(s)>> \o InsertSorted(e, Tail(s))

RECURSIVE SortEntries(_, _)
SortEntries(done, rest) ==
    IF rest = <<>> THEN done
    ELSE SortEntries(InsertSorted(Head(rest), done), Tail(rest))

LeaderboardEntry(submission) ==
    [rank |-> 0, agent_id |-> submission.agent_id, score |-> submission.score,
     status |-> submission.status, tests_passed |-> submission.tests_passed,
     total_tests |-> submission.total_tests,
     execution_time |-> submission.execution_time,
     attempts |-> submission.attempts]

CreateLeaderboard(submissions) ==
    LET entries == [i \in 1..Len(submissions) |-> LeaderboardEntry(submissions[i])]
        sorted == SortEntries(<<>>, entries)
    IN  [i \in 1..Len(sorted) |-> [sorted[i] EXCEPT !.rank = i]]


(***************************************************************************)
(* State                                                                   *)
(***************************************************************************)
VARIABLES
    database,             \* AgentManager.database is configured
    agent_cache,          \* agent ids that AgentManager.agent_cache maps to an instance
    solution_attempts,    \* len(agent.solution_attempts) of the instance of each agent id
    active_competitions,  \* competition id -> the run whose CompetitionResponse is registered
    run,                  \* one record per run_competition call: its locals and its result
    task,                 \* the execute_agent coroutines of each run, in agent_ids order
    svc,                  \* the CompetitionService.run_competition call around a run
    calls_left,           \* run_competition calls the environment still makes
    lbIn, lbOut, lbPc,    \* a stand-alone _create_leaderboard call
    score_call,           \* a stand-alone _calculate_score call
    cancel_call,          \* the cancel_competition call of the environment: what it
                          \* returned and the statuses it wrote to the store
    create_call           \* the create_competition call of the environment, made on
                          \* the service or through POST /competitions/

vars == <<database, agent_cache, solution_attempts, active_competitions, run, task,
          svc, calls_left, lbIn, lbOut, lbPc, score_call, cancel_call, create_call>>

mgrVars == <<database, agent_cache, solution_attempts, active_competitions, run, task,
             svc, calls_left, cancel_call>>
lbVars == <<lbIn, lbOut, lbPc>>
\* the stand-alone calls of the pure functions and the create call, which no
\* step of a run reads or writes
pureVars == <<lbVars, score_call, create_call>>

\* timeout_per_agent: int = 300
TimeoutPerAgent == 300

NoResults == [submissions |-> <<>>, leaderboard |-> <<>>, winner |-> <<>>]

IdleRun ==
    [pc |-> "idle", competition_id |-> "none", agent_ids |-> <<>>,
     challenge |-> [difficulty |-> "easy", total_tests |-> 0],
     status |-> "none", results |-> NoResults, exc |-> "none"]

NoService == [pc |-> "none", fetched |-> "none", updates |-> <<>>, outcome |-> "none"]

\* ret is "none" before the call, then "True", "False" or "raised"
NoCancel == [ret |-> "none", updates |-> <<>>]

\* the challenges handed to a run: one with test cases, one without any
Challenges ==
    {[difficulty |-> "medium", total_tests |-> 2],
     [difficulty |-> "easy", total_tests |-> 0]}

\* The agent_ids lists handed to run_competition: every list of at most
\* MaxAgents different ids and every list of two ids, up to a renaming of the
\* ids (the first id is 1 and a new id is the next unused number).
AgentLists ==
    {ids \in UNION {[1..n -> AgentIds] : n \in 0..MaxAgents} :
        /\ \A i \in 1..Len(ids) : \A a \in 1..(ids[i] - 1) :
               \E j \in 1..(i - 1) : ids[j] = a
        /\ \/ Len(ids) <= 2
           \/ \A i, j \in 1..Len(ids) : ids[i] = ids[j] => i = j}

(***************************************************************************)
(* AgentManager.__init__                                                   *)
(***************************************************************************)
MgrInit ==
    /\ database \in BOOLEAN
    /\ agent_cache = {}
    /\ solution_attempts = [a \in AgentIds |-> 0]
    /\ active_competitions = [c \in CompIds |-> "none"]
    /\ run = [r \in Runs |-> IdleRun]
    /\ task = [r \in Runs |-> <<>>]
    /\ svc = [r \in Runs |-> NoService]
    /\ cancel_call = NoCancel

LbIdle == lbIn = <<>> /\ lbOut = <<>> /\ lbPc = "idle"

NoScoreCall ==
    [pc |-> "idle", test_result |-> [passed |-> FALSE, passed_tests |-> 0,
                                     total_tests |-> 0],
     execution_time |-> 0, attempts |-> 1, difficulty |-> "easy", out |-> <<>>]

ScoreIdle == score_call = NoScoreCall

\* status_code is 0 for a call made on the service; competition is <<>> or
\* the one CompetitionResponse handed back
NoCreate ==
    [pc |-> "idle", via |-> "none", agent_ids |-> <<>>, status_code |-> 0,
     exc |-> "none", competition |-> <<>>]

CreateIdle == create_call = NoCreate

Init == MgrInit /\ calls_left = 1 /\ LbIdle /\ ScoreIdle /\ CreateIdle

(***************************************************************************)
(* execute_agent                                                           *)
(***************************************************************************)
\* the final _save_submission as the last statement of the outer try block
\* instead of the finally block: the except clause leaves without it
FinishTaskSaveInTry(t, submission, final_save_ok) ==
    IF ~database \/ submission.status = "error"
    THEN [t EXCEPT !.pc = "done", !.submission = submission]
    ELSE IF final_save_ok
    THEN [t EXCEPT !.pc = "done", !.submission = submission,
                   !.saves = t.saves + 1]
    ELSE [t EXCEPT !.pc = "raised",
                   !.submission = SubmissionResponse(t.agent_id, "lost", 0),
                   !.saves = t.saves + 1]

\* The finally block: with a database the final _save_submission is issued;
\* when it raises, the exception leaves execute_agent and the Submission is lost.
\* saves counts the _save_submission calls the coroutine has issued.
FinishTask(t, submission, final_save_ok) ==
    IF ~database
    THEN [t EXCEPT !.pc = "done", !.submission = submission]
    ELSE IF final_save_ok
    THEN [t EXCEPT !.pc = "done", !.submission = submission,
                   !.saves = t.saves + 1]
    ELSE [t EXCEPT !.pc = "raised",
                   !.submission = SubmissionResponse(t.agent_id, "lost", 0),
                   !.saves = t.saves + 1]

\* except Exception: status = ERROR, score = 0
ErrorSubmission(submission) == [submission EXCEPT !.status = "error", !.score = 0]

\* load_agent_from_db on a miss: without a database ValueError("Database not
\* configured"); with one _fetch_agent_record returns None and the ValueError
\* "not found" is wrapped in AgentExecutionError.  Either way it raises.
LoadAgentHits(agent_id, cache) == agent_id \in cache

\* execute_agent from its first line to its first suspension
StartTask(agent_id, total_tests, cache) ==
    LET t0 == [pc |-> "new", agent_id |-> agent_id,
               submission |-> SubmissionResponse(agent_id, "running", total_tests),
               saves |-> 0]
    IN  IF database
        THEN [t0 EXCEPT !.pc = "save_running", !.saves = 1]
        ELSE IF LoadAgentHits(agent_id, cache)
        THEN [t0 EXCEPT !.pc = "solving"]
        ELSE FinishTask(t0, ErrorSubmission(t0.submission), TRUE)

\* solve_challenge starts with self.solution_attempts = []
ResetAttempts(ids) ==
    [a \in AgentIds |-> IF a \in ids THEN 0 ELSE solution_attempts[a]]

TaskIdx(r) == 1..Len(task[r])

(***************************************************************************)
(* CompetitionService.run_competition: the two except clauses.  Both       *)
(* evaluate CompetitionStatus.FAILED before _update_competition_status is  *)
(* called; for a name the enumeration lacks that raises AttributeError     *)
(* inside the handler, and that exception is what the caller receives.     *)
(***************************************************************************)
ServiceHandler(s) ==
    IF "failed" \in CompetitionStatus
    THEN [s EXCEPT !.pc = "finished", !.updates = Append(s.updates, "failed"),
                   !.outcome = "CompetitionServiceError"]
    ELSE [s EXCEPT !.pc = "finished", !.outcome = "AttributeError"]

\* the service after agent_manager.run_competition returned or raised:
\* _finalize_competition and return, or one of the except clauses
ServiceAfter(s, how) ==
    IF s.pc # "running" THEN s
    ELSE IF how = "returned"
    THEN [s EXCEPT !.pc = "finished", !.updates = Append(s.updates, "completed"),
                   !.outcome = "results"]
    ELSE ServiceHandler(s)

(***************************************************************************)
(* AgentManager.run_competition                                            *)
(***************************************************************************)
\* lines 316-333 with the exceptions filtered out and nothing put in their place
ValidSubmissionsDropRaised(r) ==
    LET kept == SelectSeq(task[r], LAMBDA t : t.pc # "raised")
    IN  [i \in 1..Len(kept) |-> kept[i].submission]

\* lines 316-333 with status=SubmissionStatus.ERROR left out of the constructor
\* call, if the field had the default the other fields have
ValidSubmissionsRaisedPending(r) ==
    [i \in TaskIdx(r) |->
        IF task[r][i].pc = "raised"
        THEN SubmissionResponse(run[r].agent_ids[i], "pending",
                                run[r].challenge.total_tests)
        ELSE task[r][i].submission]

\* lines 316-333: a task that raised gets a synthesized error Submission
ValidSubmissions(r) ==
    [i \in TaskIdx(r) |->
        IF task[r][i].pc = "raised"
        THEN SubmissionResponse(run[r].agent_ids[i], "error",
                                run[r].challenge.total_tests)
        ELSE task[r][i].submission]

\* lines 335-357 with a winner only when the first entry passed
CompetitionResultsWinnerPassed(r) ==
    LET leaderboard == CreateLeaderboard(ValidSubmissions(r))
    IN  [submissions |-> ValidSubmissions(r),
         leaderboard |-> leaderboard,
         winner |-> IF leaderboard # <<>> /\ leaderboard[1].status = "passed"
                    THEN <<leaderboard[1].agent_id>> ELSE <<>>]

\* lines 335-357
CompetitionResults(r) ==
    LET leaderboard == CreateLeaderboard(ValidSubmissions(r))
    IN  [submissions |-> ValidSubmissions(r),
         leaderboard |-> leaderboard,
         winner |-> IF leaderboard = <<>> THEN <<>> ELSE <<leaderboard[1].agent_id>>]

\* asyncio.wait(tasks, return_when=FIRST_COMPLETED) in the place of gather
FirstSettled(r) == \E i \in TaskIdx(r) : task[r][i].pc \in {"done", "raised"}

\* asyncio.gather has a result for every task
AllSettled(r) == \A i \in TaskIdx(r) : task[r][i].pc \in {"done", "raised"}

\* cleanup() that only logs
CleanupKeepsCache == agent_cache

\* cleanup(): self.agent_cache.clear()
Cleanup == {}

\* the finally block: active_competitions.pop(competition_id, None); await cleanup()
Finally(r) ==
    /\ active_competitions' =
         [c \in CompIds |-> IF c = run[r].competition_id THEN "none"
                            ELSE active_competitions[c]]
    /\ agent_cache' = Cleanup

\* tasks = [self.execute_agent(...) for agent_id in agent_ids] and the first
\* scheduling of each of them by gather
Dispatch(r, ids, ch, cache) ==
    /\ task' = [task EXCEPT ![r] =
                    [i \in 1..Len(ids) |-> StartTask(ids[i], ch.total_tests, cache)]]
    /\ solution_attempts' =
         IF database THEN solution_attempts
         ELSE ResetAttempts({ids[i] : i \in 1..Len(ids)} \cap cache)

\* lines 347-364: the CompetitionResults object is built from the locals of
\* lines 316-337 and returned
ReturnResults(r) ==
    /\ run' = [run EXCEPT ![r].pc = "returned"]
    /\ svc' = [svc EXCEPT ![r] = ServiceAfter(svc[r], "returned")]
    /\ Finally(r)

\* The except clause, lines 366-371, entered with a database configured:
\* competition.status = CANCELLED, the save of line 370, then AgentExecutionError;
\* when that save raises, its exception leaves run_competition instead.  The
\* finally block runs either way.
Handler(r, handler_save_ok) ==
    /\ run' = [run EXCEPT ![r].pc = "raised", ![r].status = "cancelled",
                          ![r].results = NoResults,
                          ![r].exc = IF handler_save_ok THEN "AgentExecutionError"
                                     ELSE "PersistenceError"]
    /\ svc' = [svc EXCEPT ![r] = ServiceAfter(svc[r], "raised")]
    /\ Finally(r)

\* the check of lines 276-277 moved into the try block: the finally block runs
RejectEmptyThenCleanup(r, c, ch, s, cache) ==
    /\ run' = [run EXCEPT ![r] = [IdleRun EXCEPT !.pc = "raised",
                                                !.competition_id = c,
                                                !.challenge = ch,
                                                !.exc = "ValueError"]]
    /\ svc' = [svc EXCEPT ![r] = ServiceAfter(s, "raised")]
    /\ agent_cache' = Cleanup
    /\ UNCHANGED <<solution_attempts, active_competitions, task>>

\* lines 276-277: raise ValueError("No agents provided for competition"),
\* before the competition record exists and outside the try block
RejectEmpty(r, c, ch, s, cache) ==
    /\ run' = [run EXCEPT ![r] = [IdleRun EXCEPT !.pc = "raised",
                                                !.competition_id = c,
                                                !.challenge = ch,
                                                !.exc = "ValueError"]]
    /\ svc' = [svc EXCEPT ![r] = ServiceAfter(s, "raised")]
    /\ agent_cache' = cache
    /\ UNCHANGED <<solution_attempts, active_competitions, task>>

\* run_competition from its first line to its first suspension; s is the record
\* of the service call around it (NoService for a direct call)
Enter(r, c, ids, ch, s, cache) ==
    IF ids = <<>>
    THEN RejectEmpty(r, c, ch, s, cache)
    ELSE LET rr == [IdleRun EXCEPT !.competition_id = c, !.agent_ids = ids,
                                   !.challenge = ch, !.status = "running"]
         IN  /\ active_competitions' = [active_competitions EXCEPT ![c] = r]
             /\ svc' = [svc EXCEPT ![r] = s]
             /\ agent_cache' = cache
             /\ IF database
                THEN /\ run' = [run EXCEPT ![r] = [rr EXCEPT !.pc = "save_running"]]
                     /\ UNCHANGED <<solution_attempts, task>>
                ELSE /\ run' = [run EXCEPT ![r] = [rr EXCEPT !.pc = "gather"]]
                     /\ Dispatch(r, ids, ch, cache)

\* Runs and competition ids are names: the first call is r1 and the first id c1.
FirstUse(r, c) ==
    /\ r = "r1" \/ run["r1"].pc # "idle"
    /\ c = "c1" \/ \E q \in Runs : run[q].competition_id = "c1"

\* A caller puts the instances of `registered` into agent_cache, as the tests
\* do (manager.agent_cache[agent_id] = agent), and calls run_competition.  A
\* run with agents never looks at the instance of an agent that is not in
\* its list.
RunCompetition(r, c, ids, ch, registered) ==
    /\ calls_left > 0
    /\ run[r].pc = "idle"
    /\ svc[r].pc = "none"
    /\ FirstUse(r, c)
    /\ ids # <<>> => registered \subseteq {ids[i] : i \in 1..Len(ids)}
    /\ calls_left' = calls_left - 1
    /\ Enter(r, c, ids, ch, NoService, agent_cache \cup registered)
    /\ UNCHANGED <<database, pureVars, cancel_call>>

\* line 297: await self._save_competition(competition), status RUNNING
SaveRunningDone(r, ok, handler_save_ok) ==
    /\ run[r].pc = "save_running"
    /\ ok => handler_save_ok
    /\ IF ok
       THEN /\ run' = [run EXCEPT ![r].pc = "gather"]
            /\ Dispatch(r, run[r].agent_ids, run[r].challenge, agent_cache)
            /\ UNCHANGED <<agent_cache, active_competitions, svc>>
       ELSE /\ Handler(r, handler_save_ok)
            /\ UNCHANGED <<task, solution_attempts>>
    /\ UNCHANGED <<database, calls_left, pureVars, cancel_call>>

\* line 314 returns; lines 316-345 up to the completion save
GatherDone(r) ==
    /\ run[r].pc = "gather"
    /\ AllSettled(r)
    /\ IF database
       THEN /\ run' = [run EXCEPT ![r].pc = "save_completed", ![r].status = "completed",
                                  ![r].results = CompetitionResults(r)]
            /\ UNCHANGED <<agent_cache, active_competitions, svc>>
       ELSE /\ run' = [run EXCEPT ![r].pc = "returned", ![r].status = "completed",
                                  ![r].results = CompetitionResults(r)]
            /\ svc' = [svc EXCEPT ![r] = ServiceAfter(svc[r], "returned")]
            /\ Finally(r)
    /\ UNCHANGED <<database, solution_attempts, task, calls_left, pureVars, cancel_call>>

\* line 345: await self._save_competition(competition), status COMPLETED
SaveCompletedDone(r, ok, handler_save_ok) ==
    /\ run[r].pc = "save_completed"
    /\ ok => handler_save_ok
    /\ IF ok
       THEN ReturnResults(r)
       ELSE Handler(r, handler_save_ok)
    /\ UNCHANGED <<database, solution_attempts, task, calls_left, pureVars, cancel_call>>

(***************************************************************************)
(* execute_agent, continued                                                *)
(***************************************************************************)
SetTask(r, i, t) == task' = [task EXCEPT ![r][i] = t]

\* line 174: the first _save_submission completes or raises; then lines 177-187
SubmissionSaved(r, i, ok, final_save_ok) ==
    /\ i \in TaskIdx(r)
    /\ task[r][i].pc = "save_running"
    /\ (ok /\ LoadAgentHits(task[r][i].agent_id, agent_cache)) => final_save_ok
    /\ LET t == task[r][i]
       IN  IF ok /\ LoadAgentHits(t.agent_id, agent_cache)
           THEN /\ SetTask(r, i, [t EXCEPT !.pc = "solving"])
                /\ solution_attempts' = ResetAttempts({t.agent_id})
           ELSE /\ SetTask(r, i, FinishTask(t, ErrorSubmission(t.submission),
                                            final_save_ok))
                /\ UNCHANGED solution_attempts
    /\ UNCHANGED <<database, agent_cache, active_competitions, run, svc, calls_left,
                   pureVars, cancel_call>>

\* CodeExecutor.run_test_cases: no test cases gives passed = False, 0 of 0
RunTestCases(total_tests, passed_tests) ==
    [passed |-> total_tests > 0 /\ passed_tests = total_tests,
     passed_tests |-> passed_tests, total_tests |-> total_tests]

\* lines 189-216 with the two counts of the TestResult taken for each other
EvaluatedSwapsCounts(submission, test_result, execution_time, attempts, difficulty) ==
    LET s == [submission EXCEPT !.execution_time = <<execution_time>>,
                                !.tests_passed = test_result.total_tests,
                                !.total_tests = test_result.passed_tests,
                                !.attempts = attempts]
    IN  IF test_result.passed
        THEN [s EXCEPT !.status = "passed",
                       !.score = CalculateScore(test_result, execution_time, attempts,
                                                difficulty)[2]]
        ELSE [s EXCEPT !.status = "failed", !.score = 0]

\* lines 189-216 for a solve call that returned
Evaluated(submission, test_result, execution_time, attempts, difficulty) ==
    LET s == [submission EXCEPT !.execution_time = <<execution_time>>,
                                !.tests_passed = test_result.passed_tests,
                                !.total_tests = test_result.total_tests,
                                !.attempts = attempts]
    IN  IF test_result.passed
        THEN [s EXCEPT !.status = "passed",
                       !.score = CalculateScore(test_result, execution_time, attempts,
                                                difficulty)[2]]
        ELSE [s EXCEPT !.status = "failed", !.score = 0]

\* solve_challenge returned its code after k attempts and execution_time seconds
SolveReturns(r, i, k, execution_time, passed_tests, final_save_ok) ==
    /\ i \in TaskIdx(r)
    /\ task[r][i].pc = "solving"
    /\ database \/ final_save_ok
    /\ passed_tests \in 0..run[r].challenge.total_tests
    /\ LET t == task[r][i]
           n == solution_attempts[t.agent_id] + k
           test_result == RunTestCases(run[r].challenge.total_tests, passed_tests)
       IN  /\ solution_attempts' = [solution_attempts EXCEPT ![t.agent_id] = n]
           /\ SetTask(r, i, FinishTask(t,
                  Evaluated(t.submission, test_result, execution_time, n,
                            run[r].challenge.difficulty),
                  final_save_ok))
    /\ UNCHANGED <<database, agent_cache, active_competitions, run, svc, calls_left,
                   pureVars, cancel_call>>

\* solve_challenge raised after max_iterations failed attempts: except Exception
SolveRaises(r, i, final_save_ok) ==
    /\ i \in TaskIdx(r)
    /\ task[r][i].pc = "solving"
    /\ database \/ final_save_ok
    /\ LET t == task[r][i]
       IN  /\ solution_attempts' =
                [solution_attempts EXCEPT ![t.agent_id] = @ + MaxIterations]
           /\ SetTask(r, i, FinishTask(t, ErrorSubmission(t.submission), final_save_ok))
    /\ UNCHANGED <<database, agent_cache, active_competitions, run, svc, calls_left,
                   pureVars, cancel_call>>

\* the task after asyncio.TimeoutError: lines 224-230
TimedOut(t) ==
    [t.submission EXCEPT !.status = "timeout",
                         !.execution_time = <<TimeoutPerAgent>>,
                         !.score = 0]

\* await agent.solve_challenge(challenge) without wait_for: nothing expires
WaitsWithoutTimeout(r, i, made, final_save_ok) ==
    /\ FALSE
    /\ UNCHANGED vars

\* wait_for expired before solve_challenge returned; the cancelled call had
\* recorded `made` attempts, fewer than max_iterations
Timeout(r, i, made, final_save_ok) ==
    /\ i \in TaskIdx(r)
    /\ task[r][i].pc = "solving"
    /\ database \/ final_save_ok
    /\ SetTask(r, i, FinishTask(task[r][i], TimedOut(task[r][i]), final_save_ok))
    /\ solution_attempts' =
         [solution_attempts EXCEPT ![task[r][i].agent_id] = @ + made]
    /\ UNCHANGED <<database, agent_cache, active_competitions, run, svc, calls_left,
                   pureVars, cancel_call>>

(***************************************************************************)
(* AgentManager.cancel_competition.  The environment makes one cancel call *)
(* in a behaviour, to the manager or to the service.                       *)
(***************************************************************************)
\* what the call hands back: False for an id that is not registered; with a
\* database the save of line 575 completes (ok) or raises
CancelReturn(c, ok) ==
    IF active_competitions[c] = "none" THEN "False"
    ELSE IF database /\ ~ok THEN "raised"
    ELSE "True"

\* lines 571-577 without the pop of line 577
CancelEffectsKeepsEntry(c, ok) ==
    IF active_competitions[c] = "none"
    THEN UNCHANGED <<run, active_competitions>>
    ELSE /\ run' = [run EXCEPT ![active_competitions[c]].status = "cancelled"]
         /\ UNCHANGED active_competitions

\* lines 567-577: the status is set before the save, the pop comes after it
CancelEffects(c, ok) ==
    IF active_competitions[c] = "none"
    THEN UNCHANGED <<run, active_competitions>>
    ELSE /\ run' = [run EXCEPT ![active_competitions[c]].status = "cancelled"]
         /\ active_competitions' =
              IF CancelReturn(c, ok) = "raised"
              THEN active_competitions    \* _save_competition raised before the pop
              ELSE [active_competitions EXCEPT ![c] = "none"]

CancelCompetition(c, ok) ==
    /\ cancel_call = NoCancel
    /\ (~database \/ active_competitions[c] = "none") => ok
    /\ CancelEffects(c, ok)
    /\ cancel_call' = [NoCancel EXCEPT !.ret = CancelReturn(c, ok)]
    /\ UNCHANGED <<database, agent_cache, solution_attempts, task, svc, calls_left,
                   pureVars>>

(***************************************************************************)
(* CompetitionService.cancel_competition; fetched is the status of the     *)
(* record that _fetch_competition hands back                               *)
(***************************************************************************)
\* the check of line 227 as status in (PENDING, RUNNING)
ServiceCancellablePending(fetched) == fetched \in {"pending", "running"}

\* line 227: competition.status != CompetitionStatus.RUNNING returns False
ServiceCancellable(fetched) == fetched = "running"

ServiceCancelCompetition(c, fetched, ok) ==
    /\ cancel_call = NoCancel
    /\ (~database \/ active_competitions[c] = "none" \/ ~ServiceCancellable(fetched))
          => ok
    /\ IF ~ServiceCancellable(fetched)
       THEN /\ cancel_call' = [NoCancel EXCEPT !.ret = "False"]
            /\ UNCHANGED <<run, active_competitions>>
       ELSE \* the manager's answer is dropped; its exception is not caught
            /\ CancelEffects(c, ok)
            /\ cancel_call' =
                 IF CancelReturn(c, ok) = "raised"
                 THEN [NoCancel EXCEPT !.ret = "raised"]
                 ELSE [ret |-> "True", updates |-> <<"cancelled">>]
    /\ UNCHANGED <<database, agent_cache, solution_attempts, task, svc, calls_left,
                   pureVars>>

(***************************************************************************)
(* CompetitionService.run_competition up to its first suspension inside    *)
(* the manager.  fetched, ids and ch are the record and the challenge that *)
(* _fetch_competition and _fetch_challenge hand back.                      *)
(***************************************************************************)
ServiceRunCompetition(r, c, fetched, ids, ch, registered) ==
    /\ calls_left > 0
    /\ run[r].pc = "idle"
    /\ svc[r].pc = "none"
    /\ FirstUse(r, c)
    /\ registered \subseteq {ids[i] : i \in 1..Len(ids)}
    /\ fetched = "completed" => registered = {}
    /\ calls_left' = calls_left - 1
    /\ LET s == [NoService EXCEPT !.pc = "running", !.fetched = fetched]
       IN  IF fetched = "completed"
           THEN \* line 109: raise CompetitionServiceError, caught at line 165
                /\ svc' = [svc EXCEPT ![r] = ServiceHandler(s)]
                /\ UNCHANGED <<agent_cache, solution_attempts, active_competitions,
                               run, task>>
           ELSE \* _update_competition_status(RUNNING), then the manager
                Enter(r, c, ids, ch, [s EXCEPT !.updates = <<"running">>],
                      agent_cache \cup registered)
    /\ UNCHANGED <<database, pureVars, cancel_call>>

(***************************************************************************)
(* A stand-alone _create_leaderboard call                                  *)
(***************************************************************************)
BuildLeaderboard ==
    /\ lbPc = "called"
    /\ lbOut' = CreateLeaderboard(lbIn)
    /\ lbPc' = "done"
    /\ UNCHANGED <<lbIn, score_call, create_call, mgrVars>>

(***************************************************************************)
(* One run_competition call on a fresh AgentManager                        *)
(***************************************************************************)
TaskStep(r) ==
    \E i \in 1..MaxAgents, ok \in BOOLEAN :
        \/ \E first_ok \in BOOLEAN : SubmissionSaved(r, i, first_ok, ok)
        \/ \E k \in 1..MaxIterations, t \in ExecTimes, p \in 0..2 :
               SolveReturns(r, i, k, t, p, ok)
        \/ SolveRaises(r, i, ok)
        \/ \E made \in 0..(MaxIterations - 1) : Timeout(r, i, made, ok)

Next ==
    \/ \E r \in Runs, c \in CompIds, ids \in AgentLists, ch \in Challenges,
          registered \in SUBSET AgentIds :
           RunCompetition(r, c, ids, ch, registered)
    \/ \E r \in Runs, ok \in BOOLEAN, hok \in BOOLEAN : SaveRunningDone(r, ok, hok)
    \/ \E r \in Runs : TaskStep(r)
    \/ \E r \in Runs : GatherDone(r)
    \/ \E r \in Runs, ok \in BOOLEAN, hok \in BOOLEAN : SaveCompletedDone(r, ok, hok)
    \/ \E c \in CompIds, ok \in BOOLEAN : CancelCompetition(c, ok)

Spec == Init /\ [][Next]_vars

(***************************************************************************)
(* Fair scheduling: the event loop resumes a coroutine whose await has     *)
(* completed, a save completes or raises, and the timer of wait_for        *)
(* expires.  Nothing makes the environment call, and nothing makes a solve *)
(* call return or raise.                                                   *)
(***************************************************************************)
Scheduled ==
    \/ \E r \in Runs, ok \in BOOLEAN, hok \in BOOLEAN : SaveRunningDone(r, ok, hok)
    \/ \E r \in Runs, i \in 1..MaxAgents, first_ok \in BOOLEAN, ok \in BOOLEAN :
           SubmissionSaved(r, i, first_ok, ok)
    \/ \E r \in Runs, i \in 1..MaxAgents, made \in 0..(MaxIterations - 1),
          ok \in BOOLEAN :
           Timeout(r, i, made, ok)
    \/ \E r \in Runs, ok \in BOOLEAN, hok \in BOOLEAN : SaveCompletedDone(r, ok, hok)

\* run_competition is resumed when gather has a result for every task:
\* ENABLED <<\E r \in Runs : GatherDone(r)>>_vars, written out
GatherEnabled == \E r \in Runs : run[r].pc = "gather" /\ AllSettled(r)

\* WF_vars(\E r \in Runs : GatherDone(r)) with the enabling condition written out
GatherFair ==
    \/ []<>(~GatherEnabled)
    \/ []<><<\E r \in Runs : GatherDone(r)>>_vars

\* one run_competition call with a non-empty list of registered agents
NextFair ==
    \/ \E r \in Runs, ids \in AgentLists, ch \in Challenges :
           /\ ids # <<>>
           /\ ch.total_tests > 0
           /\ RunCompetition(r, "c1", ids, ch, {ids[i] : i \in 1..Len(ids)})
    \/ \E r \in Runs, ok \in BOOLEAN, hok \in BOOLEAN : SaveRunningDone(r, ok, hok)
    \/ \E r \in Runs : TaskStep(r)
    \/ \E r \in Runs : GatherDone(r)
    \/ \E r \in Runs, ok \in BOOLEAN, hok \in BOOLEAN : SaveCompletedDone(r, ok, hok)

SpecFair == Init /\ [][NextFair]_vars /\ WF_vars(Scheduled) /\ GatherFair

(***************************************************************************)
(* One CompetitionService.run_competition call on a fresh service          *)
(***************************************************************************)
NextService ==
    \/ \E r \in Runs, c \in CompIds, fetched \in CompetitionStatus,
          ids \in AgentLists, ch \in Challenges, registered \in SUBSET AgentIds :
           ServiceRunCompetition(r, c, fetched, ids, ch, registered)
    \/ \E r \in Runs, ok \in BOOLEAN, hok \in BOOLEAN : SaveRunningDone(r, ok, hok)
    \/ \E r \in Runs : TaskStep(r)
    \/ \E r \in Runs : GatherDone(r)
    \/ \E r \in Runs, ok \in BOOLEAN, hok \in BOOLEAN : SaveCompletedDone(r, ok, hok)
    \/ \E c \in CompIds, ok \in BOOLEAN : CancelCompetition(c, ok)
    \/ \E c \in CompIds, fetched \in CompetitionStatus, ok \in BOOLEAN :
           ServiceCancelCompetition(c, fetched, ok)

SpecService == Init /\ [][NextService]_vars

(***************************************************************************)
(* A pending competition is run through the service, and the environment   *)
(* makes one CompetitionService.cancel_competition call at any moment      *)
(***************************************************************************)
NextServiceCancel ==
    \/ \E r \in Runs, c \in CompIds, ids \in AgentLists, ch \in Challenges,
          registered \in SUBSET AgentIds :
           ServiceRunCompetition(r, c, "pending", ids, ch, registered)
    \/ \E r \in Runs, ok \in BOOLEAN, hok \in BOOLEAN : SaveRunningDone(r, ok, hok)
    \/ \E r \in Runs : TaskStep(r)
    \/ \E r \in Runs : GatherDone(r)
    \/ \E r \in Runs, ok \in BOOLEAN, hok \in BOOLEAN : SaveCompletedDone(r, ok, hok)
    \/ \E c \in CompIds, fetched \in CompetitionStatus, ok \in BOOLEAN :
           ServiceCancelCompetition(c, fetched, ok)

SpecServiceCancel == Init /\ [][NextServiceCancel]_vars

(***************************************************************************)
(* _create_leaderboard on every list of at most LbMaxLen Submissions; the  *)
(* agent id of a Submission is its place in the list                       *)
(***************************************************************************)
LbSubmission(i, score, execution_time) ==
    [SubmissionResponse(i, IF score > 0 THEN "passed" ELSE "failed", 1)
        EXCEPT !.score = score, !.execution_time = execution_time,
               !.tests_passed = IF score > 0 THEN 1 ELSE 0, !.attempts = 1]

\* the lists of exactly n Submissions
LbInputs(n) ==
    {[i \in 1..n |-> LbSubmission(i, f[i][1], f[i][2])] :
        f \in [1..n -> (0..LbMaxScore) \X LbTimes]}

InitLB ==
    /\ MgrInit
    /\ calls_left = 0
    /\ \E n \in 0..LbMaxLen : lbIn \in LbInputs(n)
    /\ lbOut = <<>>
    /\ lbPc = "called"
    /\ ScoreIdle
    /\ CreateIdle

NextLB == BuildLeaderboard

SpecLB == InitLB /\ [][NextLB]_vars

(***************************************************************************)
(* _calculate_score on the TestResults run_test_cases hands back, for      *)
(* every execution time, attempt count and difficulty of the bounds.  A    *)
(* call with a TestResult that did not pass reads nothing but its counts,  *)
(* a call with one that passed reads the other arguments and no count.     *)
(***************************************************************************)
CalculateScoreCall ==
    /\ score_call.pc = "called"
    /\ score_call' = [score_call EXCEPT
                         !.pc = "done",
                         !.out = CalculateScore(score_call.test_result,
                                                score_call.execution_time,
                                                score_call.attempts,
                                                score_call.difficulty)]
    /\ UNCHANGED <<lbVars, create_call, mgrVars>>

InitScore ==
    /\ MgrInit
    /\ calls_left = 0
    /\ LbIdle
    /\ CreateIdle
    /\ \E total_tests \in 0..ScoreMaxTests, passed_tests \in 0..ScoreMaxTests,
          execution_time \in 0..ScoreMaxTime, attempts \in 1..ScoreMaxAttempts,
          difficulty \in Difficulties :
           /\ passed_tests <= total_tests
           /\ IF RunTestCases(total_tests, passed_tests).passed
              THEN total_tests = 1
              ELSE execution_time = 0 /\ attempts = 1 /\ difficulty = "easy"
           /\ score_call = [NoScoreCall EXCEPT
                               !.pc = "called",
                               !.test_result = RunTestCases(total_tests, passed_tests),
                               !.execution_time = execution_time,
                               !.attempts = attempts,
                               !.difficulty = difficulty]

NextScore == CalculateScoreCall

SpecScore == InitScore /\ [][NextScore]_vars

(***************************************************************************)
(* CompetitionService.create_competition and the endpoint POST             *)
(* /competitions/ in front of it                                           *)
(***************************************************************************)
\* uuid.UUID() called with none of hex, bytes, bytes_le, fields and int
\* raises TypeError; UUID is the class imported from uuid, not uuid4
NewUUID == <<"raise", "TypeError">>

\* CompetitionService.create_competition: the CompetitionResponse is built
\* (its id first), saved when a database is configured, and returned
CreateCompetition(agent_ids, save_ok) ==
    IF NewUUID[1] = "raise"
    THEN [exc |-> NewUUID[2], competition |-> <<>>]
    ELSE IF database /\ ~save_ok
    THEN [exc |-> "Exception", competition |-> <<>>]
    ELSE [exc |-> "none",
          competition |-> <<[id |-> NewUUID[2], agent_ids |-> agent_ids,
                             status |-> "pending"]>>]

\* the except clauses of the endpoint: ValueError is answered with 400, every
\* other Exception with 500.  HTTPException is an Exception and no ValueError.
CreateEndpointHandler(exc) == IF exc = "ValueError" THEN 400 ELSE 500

\* the endpoint: the length check raises HTTPException(400) inside the try
\* block whose except clauses follow
CreateEndpoint(agent_ids, save_ok) ==
    LET created == CreateCompetition(agent_ids, save_ok)
        raised == IF Len(agent_ids) < 2 THEN "HTTPException" ELSE created.exc
    IN  IF raised = "none"
        THEN [status_code |-> 201, exc |-> "none", competition |-> created.competition]
        ELSE [status_code |-> CreateEndpointHandler(raised), exc |-> raised,
              competition |-> <<>>]

\* the save is reached only after the id was built
SaveReached == NewUUID[1] # "raise" /\ database

ServiceCreateCompetition(agent_ids, save_ok) ==
    /\ create_call = NoCreate
    /\ \A r \in Runs : run[r].pc = "idle" /\ svc[r].pc = "none"
    /\ ~SaveReached => save_ok
    /\ LET created == CreateCompetition(agent_ids, save_ok)
       IN  create_call' = [NoCreate EXCEPT !.pc = "done", !.via = "service",
                                           !.agent_ids = agent_ids,
                                           !.exc = created.exc,
                                           !.competition = created.competition]
    /\ UNCHANGED <<mgrVars, lbVars, score_call>>

RouteCreateCompetition(agent_ids, save_ok) ==
    /\ create_call = NoCreate
    /\ \A r \in Runs : run[r].pc = "idle" /\ svc[r].pc = "none"
    /\ (~SaveReached \/ Len(agent_ids) < 2) => save_ok
    /\ LET answer == CreateEndpoint(agent_ids, save_ok)
       IN  create_call' = [NoCreate EXCEPT !.pc = "done", !.via = "route",
                                           !.agent_ids = agent_ids,
                                           !.status_code = answer.status_code,
                                           !.exc = answer.exc,
                                           !.competition = answer.competition]
    /\ UNCHANGED <<mgrVars, lbVars, score_call>>

(***************************************************************************)
(* A create call on a fresh service, then a run of a stored competition of *)
(* two agents, both registered (test_competition_service)                  *)
(***************************************************************************)
NextCreate ==
    \/ \E agent_ids \in AgentLists, save_ok \in BOOLEAN :
           ServiceCreateCompetition(agent_ids, save_ok)
    \/ \E agent_ids \in AgentLists, save_ok \in BOOLEAN :
           RouteCreateCompetition(agent_ids, save_ok)
    \/ \E r \in Runs, ids \in AgentLists, ch \in Challenges :
           /\ Len(ids) >= 2
           /\ ServiceRunCompetition(r, "c1", "pending", ids, ch,
                                    {ids[i] : i \in 1..Len(ids)})
    \/ \E r \in Runs, ok \in BOOLEAN, hok \in BOOLEAN : SaveRunningDone(r, ok, hok)
    \/ \E r \in Runs : TaskStep(r)
    \/ \E r \in Runs : GatherDone(r)
    \/ \E r \in Runs, ok \in BOOLEAN, hok \in BOOLEAN : SaveCompletedDone(r, ok, hok)

SpecCreate == Init /\ [][NextCreate]_vars

(***************************************************************************)
(* One run whose agent_ids names one agent twice, the agent configured     *)
(* with the largest max_iterations AgentConfig accepts.  The two           *)
(* coroutines share the cached instance; each solve call returns after 1   *)
(* to max_iterations attempts of its own or is cut off by the timeout.     *)
(***************************************************************************)
\* max_iterations: int = Field(3, ge=1, le=10)
MaxIterationsLimit == 10

InitSharedInstance == Init /\ ~database

NextSharedInstance ==
    \/ \E r \in Runs, ch \in Challenges : RunCompetition(r, "c1", <<1, 1>>, ch, {1})
    \/ \E r \in Runs, i \in 1..2, k \in 1..MaxIterationsLimit, t \in ExecTimes,
          p \in 0..2 :
           SolveReturns(r, i, k, t, p, TRUE)
    \/ \E r \in Runs, i \in 1..2, made \in 0..(MaxIterationsLimit - 1) :
           Timeout(r, i, made, TRUE)
    \/ \E r \in Runs : GatherDone(r)

SpecSharedInstance == InitSharedInstance /\ [][NextSharedInstance]_vars

(***************************************************************************)
(* Two run_competition calls on one AgentManager, each for one registered  *)
(* agent; the second call may start while the first is in flight and may   *)
(* name the same competition id                                            *)
(***************************************************************************)
InitTwoRuns == MgrInit /\ calls_left = 2 /\ LbIdle /\ ScoreIdle /\ CreateIdle

NextTwoRuns ==
    \/ \E r \in Runs, c \in CompIds, ids \in AgentLists, ch \in Challenges :
           /\ Len(ids) = 1
           /\ RunCompetition(r, c, ids, ch, {ids[1]})
    \/ \E r \in Runs, ok \in BOOLEAN, hok \in BOOLEAN : SaveRunningDone(r, ok, hok)
    \/ \E r \in Runs : TaskStep(r)
    \/ \E r \in Runs : GatherDone(r)
    \/ \E r \in Runs, ok \in BOOLEAN, hok \in BOOLEAN : SaveCompletedDone(r, ok, hok)

SpecTwoRuns == InitTwoRuns /\ [][NextTwoRuns]_vars

(***************************************************************************)
(* Properties                                                              *)
(***************************************************************************)

\* C1: a run_competition call with N >= 1 agent ids that returns results
\* returns a leaderboard of exactly N entries and exactly N submissions,
\* whatever the runners did (passed, failed, timed out or raised).
C1_OneEntryPerAgent ==
    \A r \in Runs :
        run[r].pc = "returned" =>
            /\ Len(run[r].agent_ids) >= 1
            /\ Len(run[r].results.leaderboard) = Len(run[r].agent_ids)
            /\ Len(run[r].results.submissions) = Len(run[r].agent_ids)

\* a returned two-agent run one of whose runners raised while the other timed out
C1_Witness ==
    \E r \in Runs :
        /\ run[r].pc = "returned"
        /\ Len(run[r].agent_ids) = 2
        /\ \E i, j \in TaskIdx(r) :
              /\ task[r][i].pc = "raised"
              /\ task[r][j].pc = "done"
              /\ task[r][j].submission.status = "timeout"

\* C2: execute_agent never raises to its caller: whatever step meets an
\* exception (first save, agent resolution, solve call, evaluation, scoring,
\* final save), the runner returns a Submission, with status error and score 0.
C2_ExecuteAgentNeverRaises ==
    \A r \in Runs : \A i \in TaskIdx(r) :
        /\ task[r][i].pc # "raised"
        /\ (task[r][i].pc = "done" /\ task[r][i].submission.status = "error")
              => task[r][i].submission.score = 0

\* C3: when timeout_per_agent expires on a runner's solve call, that runner
\* returns a Submission with status timeout and score 0, and the step changes
\* nothing of any other runner, of any other agent's instance or of the run.
C3_TimeoutIsolated ==
    [][\A r \in Runs : \A i \in 1..MaxAgents : \A made \in 0..(MaxIterations - 1) :
          \A final_save_ok \in BOOLEAN :
            Timeout(r, i, made, final_save_ok) =>
                /\ task'[r][i].pc = "done"
                /\ task'[r][i].submission.status = "timeout"
                /\ task'[r][i].submission.score = 0
                /\ \A q \in Runs : \A j \in TaskIdx(q) :
                       <<q, j>> # <<r, i>> => task'[q][j] = task[q][j]
                /\ \A a \in AgentIds :
                       a # task[r][i].agent_id =>
                           solution_attempts'[a] = solution_attempts[a]
                /\ run' = run]_vars

\* C4: the status of a competition only moves pending -> running ->
\* {completed, cancelled, failed}; a completed, cancelled or failed status
\* never changes again, also under a cancel while the agents are in flight
\* and under a failing completion save.
C4_StatusMonotonic ==
    [][\A r \in Runs :
          run'[r].status # run[r].status =>
              <<run[r].status, run'[r].status>> \in
                  {<<"none", "pending">>, <<"none", "running">>,
                   <<"pending", "running">>}
                  \cup ({"running"} \X TerminalCompetition)]_vars

\* C5: the competition is completed and its leaderboard built only after the
\* runner of every dispatched agent has finished (no early exit), and every
\* Submission of the results has a terminal status.
C5_CompletedAfterAllRunners ==
    \A r \in Runs :
        (run[r].status = "completed" \/ run[r].pc \in {"save_completed", "returned"}) =>
            /\ Len(task[r]) = Len(run[r].agent_ids)
            /\ \A i \in TaskIdx(r) : task[r][i].pc \in {"done", "raised"}
            /\ Len(run[r].results.leaderboard) = Len(run[r].results.submissions)
            /\ \A i \in 1..Len(run[r].results.submissions) :
                   run[r].results.submissions[i].status \in TerminalSubmission
            /\ \A i \in 1..Len(run[r].results.leaderboard) :
                   run[r].results.leaderboard[i].status \in TerminalSubmission

\* a completed two-agent run in which one agent passed and the other failed
C5_Witness ==
    \E r \in Runs :
        /\ run[r].pc = "returned"
        /\ run[r].status = "completed"
        /\ \E i, j \in 1..Len(run[r].results.submissions) :
              /\ run[r].results.submissions[i].status = "passed"
              /\ run[r].results.submissions[j].status = "failed"

\* C6: when the runner task of an agent raises, the results still hold a
\* Submission and a leaderboard entry for that agent id, with status error and
\* score 0, and the Submission of every other runner is the one it returned.
C6_RaisedRunnerGetsErrorEntry ==
    \A r \in Runs :
        run[r].pc \in {"save_completed", "returned"} =>
            /\ Len(run[r].results.submissions) = Len(task[r])
            /\ \A i \in TaskIdx(r) :
                  IF task[r][i].pc = "raised"
                  THEN /\ run[r].results.submissions[i].agent_id = run[r].agent_ids[i]
                       /\ run[r].results.submissions[i].status = "error"
                       /\ run[r].results.submissions[i].score = 0
                       /\ \E e \in 1..Len(run[r].results.leaderboard) :
                              /\ run[r].results.leaderboard[e].agent_id
                                     = run[r].agent_ids[i]
                              /\ run[r].results.leaderboard[e].status = "error"
                              /\ run[r].results.leaderboard[e].score = 0
                  ELSE run[r].results.submissions[i] = task[r][i].submission

\* a returned run in which one runner raised and another one passed
C6_Witness ==
    \E r \in Runs :
        /\ run[r].pc = "returned"
        /\ \E i, j \in TaskIdx(r) :
              /\ task[r][i].pc = "raised"
              /\ task[r][j].pc = "done"
              /\ task[r][j].submission.status = "passed"
              /\ run[r].results.submissions[j].status = "passed"

\* C7: CompetitionService.run_competition on a competition stored as
\* completed fails with CompetitionServiceError and does nothing else: no
\* status update, no agent dispatched, no Submission written, registry and
\* agent cache as they were.
C7_CompletedIsRejected ==
    [][\A r \in Runs :
          (svc[r].pc = "none" /\ svc'[r].pc # "none" /\ svc'[r].fetched = "completed") =>
              /\ svc'[r].pc = "finished"
              /\ svc'[r].outcome = "CompetitionServiceError"
              /\ svc'[r].updates = <<>>
              /\ UNCHANGED <<run, task, active_competitions, agent_cache>>]_vars

\* C8: whenever the manager's run_competition raises inside the service
\* (any exception, the ValueError for an empty agent list included), the
\* service marks the competition failed and the caller receives a
\* CompetitionServiceError and nothing else.
C8_ManagerFailureIsWrapped ==
    \A r \in Runs :
        (svc[r].pc = "finished" /\ run[r].pc = "raised") =>
            /\ svc[r].outcome = "CompetitionServiceError"
            /\ svc[r].updates # <<>>
            /\ svc[r].updates[Len(svc[r].updates)] = "failed"

\* C9: once a run_competition call that passed the agent-list validation has
\* returned or raised, on whatever path, its competition id is not in
\* active_competitions and agent_cache is empty.
C9_CleanedUpAfterRun ==
    \A r \in Runs :
        (\/ run[r].pc = "returned"
         \/ run[r].pc = "raised" /\ run[r].exc # "ValueError") =>
            /\ active_competitions[run[r].competition_id] = "none"
            /\ agent_cache = {}

\* a run with a registered agent that was cancelled during its completion
\* save, and one whose completion save failed
C9_Witness ==
    /\ \E r \in Runs :
          \/ /\ run[r].pc = "returned"
             /\ run[r].status = "cancelled"
             /\ \E i \in TaskIdx(r) : task[r][i].submission.status = "passed"
          \/ /\ run[r].pc = "raised"
             /\ run[r].exc = "AgentExecutionError"
             /\ \E i \in TaskIdx(r) : task[r][i].submission.status = "passed"

\* C10: for every list of Submissions (scores >= 0, execution_time missing or
\* >= 0, 0 included) adjacent leaderboard entries satisfy score[i] >=
\* score[i+1] and, at equal scores, execution_time[i] <= execution_time[i+1],
\* a missing execution_time counting as +infinity.
C10_LeaderboardSorted ==
    lbPc = "done" =>
        \A i \in 1..(Len(lbOut) - 1) :
            /\ lbOut[i].score >= lbOut[i + 1].score
            /\ lbOut[i].score = lbOut[i + 1].score =>
                  \/ lbOut[i + 1].execution_time = <<>>
                  \/ /\ lbOut[i].execution_time # <<>>
                     /\ lbOut[i].execution_time[1] <= lbOut[i + 1].execution_time[1]

\* C11: in the results of run_competition the winner is the agent_id of the
\* leaderboard entry of rank 1, it is null exactly when the leaderboard is
\* empty, and a run with at least one dispatched agent has a winner.
C11_WinnerIsRankOne ==
    \A r \in Runs :
        run[r].pc \in {"save_completed", "returned"} =>
            LET res == run[r].results
            IN  /\ res.winner = <<>> <=> res.leaderboard = <<>>
                /\ res.leaderboard # <<>> =>
                       /\ res.leaderboard[1].rank = 1
                       /\ res.winner = <<res.leaderboard[1].agent_id>>
                /\ Len(run[r].agent_ids) >= 1 => res.winner # <<>>

\* a returned run of two agents in which nobody scored, and one in which the
\* second agent of the list won
C11_Witness ==
    \E r \in Runs :
        /\ run[r].pc = "returned"
        /\ Len(run[r].agent_ids) = 2
        /\ run[r].results.winner # <<>>
        /\ \/ \A i \in 1..2 : run[r].results.submissions[i].score = 0
           \/ /\ run[r].results.winner = <<run[r].agent_ids[2]>>
              /\ run[r].agent_ids[1] # run[r].agent_ids[2]

\* the value of floor((100 + time_bonus - (attempts - 1) * 10) * m) in real
\* arithmetic: twelve times the product is a whole number, and \div rounds down
C12_Formula(execution_time, attempts, difficulty) ==
    LET time_bonus6 == Max(0, 300 - 5 * execution_time)
        m2 == CASE Lower(difficulty) = "easy" -> 2
                [] Lower(difficulty) = "medium" -> 3
                [] Lower(difficulty) = "hard" -> 4
                [] OTHER -> 2
    IN  ((600 + time_bonus6 - (attempts - 1) * 60) * m2) \div 12

\* C12: when all tests passed, _calculate_score returns
\* max(0, floor((100 + time_bonus - (attempts - 1) * 10) * m)) with
\* time_bonus = max(0, 50 - execution_time / 60 * 50) and m = 1.0 / 1.5 / 2.0
\* for easy / medium / hard in any case of the letters and 1.0 otherwise, for
\* every execution time >= 0 and every attempts >= 1 (30 s, 1 attempt, medium: 187).
C12_PassedScoreIsTheFormula ==
    (score_call.pc = "done" /\ score_call.test_result.passed) =>
        score_call.out = <<"ok", Max(0, C12_Formula(score_call.execution_time,
                                                    score_call.attempts,
                                                    score_call.difficulty))>>

\* C13: when not all tests passed, _calculate_score returns
\* floor(tests_passed / total_tests * 30) for every 0 <= tests_passed <=
\* total_tests, and 0 without raising when total_tests is 0.
C13_PartialCredit ==
    (score_call.pc = "done" /\ ~score_call.test_result.passed) =>
        score_call.out =
            <<"ok", IF score_call.test_result.total_tests = 0 THEN 0
                    ELSE (score_call.test_result.passed_tests * 30)
                             \div score_call.test_result.total_tests>>

\* C14: a Submission whose evaluation ran but did not pass every test case
\* ends with status failed and the partial-credit score
\* floor(tests_passed / total_tests * 30), not a flat 0.
C14_FailedGetsPartialCredit ==
    \A r \in Runs : \A i \in TaskIdx(r) :
        LET submission == task[r][i].submission
        IN  (task[r][i].pc = "done" /\ submission.execution_time # <<>>
                /\ submission.status # "timeout"
                /\ submission.tests_passed < submission.total_tests) =>
                /\ submission.status = "failed"
                /\ submission.score =
                       (submission.tests_passed * 30) \div submission.total_tests

\* C15: every Submission, in every state it goes through (pending, running
\* and every terminal status, on every path through execute_agent and as a
\* synthesized error Submission of the orchestrator), has
\* 0 <= tests_passed <= total_tests and score >= 0.
C15_CountsAndScoreInRange ==
    LET InRange(x) == /\ 0 <= x.tests_passed
                      /\ x.tests_passed <= x.total_tests
                      /\ x.score >= 0
    IN  \A r \in Runs :
            /\ \A i \in TaskIdx(r) : task[r][i].pc # "raised" => InRange(task[r][i].submission)
            /\ \A i \in 1..Len(run[r].results.submissions) :
                   InRange(run[r].results.submissions[i])
            /\ \A i \in 1..Len(run[r].results.leaderboard) :
                   InRange(run[r].results.leaderboard[i])

\* results that hold a Submission with some but not all tests passed next to
\* a synthesized error Submission
C15_Witness ==
    \E r \in Runs :
        /\ run[r].pc = "returned"
        /\ \E i, j \in TaskIdx(r) :
              /\ task[r][i].pc = "raised"
              /\ run[r].results.submissions[i].status = "error"
              /\ run[r].results.submissions[j].status = "failed"
              /\ run[r].results.submissions[j].tests_passed > 0
              /\ run[r].results.submissions[j].tests_passed
                     < run[r].results.submissions[j].total_tests

\* C16: the results of one competition run never hold two Submissions with
\* the same agent id, whatever agent id list the run was started with.
C16_OneSubmissionPerAgent ==
    \A r \in Runs :
        \A i, j \in 1..Len(run[r].results.submissions) :
            run[r].results.submissions[i].agent_id
                = run[r].results.submissions[j].agent_id => i = j

\* C17: a run request for a competition whose stored status is not pending
\* (running, cancelled, completed or failed) is rejected: the manager is not
\* entered and no agent is dispatched.
C17_OnlyPendingIsRun ==
    [][\A r \in Runs :
          (svc[r].pc = "none" /\ svc'[r].pc # "none" /\ svc'[r].fetched # "pending") =>
              /\ run'[r].pc = "idle"
              /\ task' = task
              /\ active_competitions' = active_competitions]_vars

\* C18: run_competition with an empty agent id list fails with ValueError
\* before anything else happens: the competition is not added to
\* active_competitions, no status is set or saved, no agent is dispatched and
\* agent_cache is not cleared.
C18_EmptyListRejectedFirst ==
    [][\A r \in Runs, c \in CompIds, ch \in Challenges, registered \in SUBSET AgentIds :
          RunCompetition(r, c, <<>>, ch, registered) =>
              /\ run'[r].pc = "raised"
              /\ run'[r].exc = "ValueError"
              /\ run'[r].status = "none"
              /\ active_competitions' = active_competitions
              /\ task' = task
              /\ agent_cache' = agent_cache \cup registered]_vars

\* an empty list was rejected on a manager that holds agent instances
C18_Witness ==
    \E r \in Runs :
        /\ run[r].pc = "raised"
        /\ run[r].exc = "ValueError"
        /\ agent_cache # {}

C21_CreateThenRun ==
    (/\ create_call.pc = "done"
     /\ create_call.via = "service"
     /\ Len(create_call.agent_ids) >= 2) =>
        /\ create_call.exc = "none"
        /\ Len(create_call.competition) = 1
        /\ \A r \in Runs :
               svc[r].pc = "finished" =>
                   /\ svc[r].outcome = "results"
                   /\ run[r].results.winner # <<>>
                   /\ Len(run[r].results.submissions) = Len(create_call.agent_ids)

\* C22: POST /competitions/ with fewer than 2 agent ids answers 400 and
\* creates no competition; with 2 or more it answers with the created
\* competition, whose status is pending.
C22_CreateEndpoint ==
    (create_call.pc = "done" /\ create_call.via = "route") =>
        IF Len(create_call.agent_ids) < 2
        THEN create_call.status_code = 400 /\ create_call.competition = <<>>
        ELSE /\ create_call.status_code = 201
             /\ Len(create_call.competition) = 1
             /\ create_call.competition[1].status = "pending"

\* C23: with a database every execute_agent call issues exactly two
\* _save_submission calls on every path: one with status running before the
\* solve call starts, one when the call ends, with the terminal status of
\* the Submission; without a database it issues none and returns a
\* Submission.
C23_TwoSavesPerCall ==
    \A r \in Runs : \A i \in TaskIdx(r) :
        LET t == task[r][i]
        IN  IF database
            THEN /\ t.pc = "save_running" =>
                        t.saves = 1 /\ t.submission.status = "running"
                 /\ t.pc = "solving" => t.saves = 1
                 /\ t.pc \in {"done", "raised"} => t.saves = 2
                 /\ t.pc = "done" => t.submission.status \in TerminalSubmission
            ELSE /\ t.saves = 0
                 /\ t.pc \in {"solving", "done"}
                 /\ t.pc = "done" => t.submission.status \in TerminalSubmission

C23_Witness ==
    /\ database
    /\ \E r \in Runs : \E i \in TaskIdx(r) :
           /\ task[r][i].pc = "done"
           /\ task[r][i].submission.status = "error"
           /\ task[r][i].saves = 2
    /\ \E r \in Runs : \E i \in TaskIdx(r) :
           /\ task[r][i].pc = "done"
           /\ task[r][i].submission.status = "timeout"
           /\ task[r][i].saves = 2

\* the first place of an agent id in agent_ids
C24_Place(ids, agent_id) ==
    CHOOSE i \in 1..Len(ids) :
        ids[i] = agent_id /\ \A j \in 1..(i - 1) : ids[j] # agent_id

\* C24: the leaderboard of a run is determined by agent_ids and the terminal
\* Submissions alone, whatever the order in which the agents completed: the
\* Submissions are in agent_ids order, the ranks are 1..N from the top, and
\* entries tied on score and execution time stand in agent_ids order.
C24_LeaderboardIgnoresCompletionOrder ==
    \A r \in Runs :
        run[r].pc = "returned" =>
            LET ids == run[r].agent_ids
                submissions == run[r].results.submissions
                leaderboard == run[r].results.leaderboard
            IN  /\ Len(submissions) = Len(ids)
                /\ \A i \in 1..Len(ids) : submissions[i].agent_id = ids[i]
                /\ leaderboard = CreateLeaderboard(submissions)
                /\ Len(leaderboard) = Len(ids)
                /\ \A k \in 1..Len(leaderboard) : leaderboard[k].rank = k
                /\ \A j, k \in 1..Len(leaderboard) :
                       (/\ j < k
                        /\ leaderboard[j].score = leaderboard[k].score
                        /\ leaderboard[j].execution_time
                               = leaderboard[k].execution_time) =>
                           C24_Place(ids, leaderboard[j].agent_id)
                               <= C24_Place(ids, leaderboard[k].agent_id)

\* two different agents passed with the same score and execution time
C24_Witness ==
    \E r \in Runs :
        /\ run[r].pc = "returned"
        /\ run[r].agent_ids = <<1, 2>>
        /\ \A k \in 1..2 :
               /\ run[r].results.leaderboard[k].status = "passed"
               /\ run[r].results.leaderboard[k].agent_id = k
        /\ run[r].results.leaderboard[1].score = run[r].results.leaderboard[2].score
        /\ run[r].results.leaderboard[1].execution_time
               = run[r].results.leaderboard[2].execution_time

\* C25: within one run solve_challenge is invoked at most once for an agent
\* and the agent makes at most max_iterations attempts: the attempts its
\* instance has recorded never number more than max_iterations.
C25_AtMostMaxIterations ==
    \A r \in Runs : \A a \in AgentIds :
        /\ Cardinality({i \in TaskIdx(r) :
                           /\ task[r][i].agent_id = a
                           /\ \/ task[r][i].pc = "solving"
                              \/ task[r][i].submission.status
                                     \in {"passed", "failed", "timeout"}}) <= 1
        /\ (\E i \in TaskIdx(r) : task[r][i].agent_id = a) =>
               solution_attempts[a] <= MaxIterations

\* C26: in a completed competition every passed Submission has a score of at
\* least 10 and is ranked above every failed, timeout or error Submission,
\* all of which score 0; if an agent passed, the entry of the winner is a
\* passed one.
C26_PassedOutranksTheRest ==
    \A r \in Runs :
        run[r].pc = "returned" =>
            LET leaderboard == run[r].results.leaderboard
                Passed == {j \in 1..Len(leaderboard) : leaderboard[j].status = "passed"}
                Rest == {j \in 1..Len(leaderboard) :
                            leaderboard[j].status \in {"failed", "timeout", "error"}}
            IN  /\ \A j \in Passed : leaderboard[j].score >= 10
                /\ \A j \in Rest : leaderboard[j].score = 0
                /\ \A j \in Passed : \A k \in Rest : j < k
                /\ Passed # {} =>
                       /\ run[r].results.winner = <<leaderboard[1].agent_id>>
                       /\ 1 \in Passed

\* C27: the end of one competition never changes the outcome of an agent of
\* another one running on the same AgentManager: an instance that was cached
\* when its agent was dispatched is still cached when the coroutine of the
\* agent, suspended in its first save, comes to look it up.
C27_EndKeepsInstancesOfOthers ==
    [][\A r \in Runs : \A i \in TaskIdx(r) :
           (/\ run[r].pc = "gather"
            /\ task[r][i].pc = "save_running"
            /\ LoadAgentHits(task[r][i].agent_id, agent_cache)) =>
               LoadAgentHits(task[r][i].agent_id, agent_cache')]_vars

\* C28: the attempts value of a passed or failed Submission is the number of
\* attempts the solve call of its own coroutine made, also when another
\* coroutine works with the same cached instance.
C28_AttemptsAreTheCallsOwn ==
    [][\A r \in Runs, i \in 1..MaxAgents, k \in 1..MaxIterations, t \in ExecTimes,
          p \in 0..2, ok \in BOOLEAN :
           (SolveReturns(r, i, k, t, p, ok) /\ task'[r][i].pc = "done") =>
               /\ task'[r][i].submission.status \in {"passed", "failed"}
               /\ task'[r][i].submission.attempts = k]_vars

\* C30: while a run_competition call for a competition id is in flight and
\* no cancel call was made, the id is in active_competitions, also when a
\* second call for the same id overlaps with it.
C30_InFlightIsRegistered ==
    \A r \in Runs :
        (/\ run[r].pc \in {"save_running", "gather", "save_completed"}
         /\ cancel_call = NoCancel) =>
            active_competitions[run[r].competition_id] # "none"

\* C29: under fair scheduling every run_competition call with a non-empty
\* agent list that is in flight eventually returns or raises, and then its
\* competition is not running and not in active_competitions, even if no
\* solve call ever returns.
C29_RunEnds ==
    \A r \in Runs :
        (run[r].pc \in {"save_running", "gather", "save_completed"}) ~>
            (/\ run[r].pc \in {"returned", "raised"}
             /\ run[r].status # "running"
             /\ active_competitions[run[r].competition_id] = "none")

\* a run returned although the solve call of every one of its agents was cut
\* off by the timeout
C29_Witness ==
    \E r \in Runs :
        /\ run[r].pc = "returned"
        /\ Len(run[r].agent_ids) = MaxAgents
        /\ \A i \in TaskIdx(r) : task[r][i].submission.status = "timeout"
        /\ active_competitions[run[r].competition_id] = "none"

====
